---- MODULE Spec2Model ----
(***************************************************************************)
(* Model of the contract deployer in src/src/main.rs: one run of main,     *)
(* from reading config.json to the final printed line.  The file system    *)
(* and the ton_client SDK are the environment; their outcomes are chosen   *)
(* nondeterministically where the code observes them.                      *)
(*                                                                         *)
(* Text is modelled as a sequence of one-character strings.  An            *)
(* Option<T> is a set with at most one element: {} is None, {x} is Some(x).*)
(***************************************************************************)
EXTENDS Integers, Sequences, FiniteSets, TLC

\* ---------------------------------------------------------------- bounds
MaxParamLen == 2
MaxKeyLen == 2

\* ------------------------------------------------------------- constants
WORKCHAIN == 0

\* ---------------------------------------------------------- option type
None == {}
Some(x) == {x}
IsSome(o) == o /= {}
Unwrap(o) == CHOOSE x \in o : TRUE

\* ------------------------------------------------------------ input text
Quote == "\""
Backslash == "\\"
ParamChars == {"{", "}", "1"}
KeyChars == {"a", Quote, Backslash}
StrUpTo(chars, n) == UNION {[1..k -> chars] : k \in 0..n}
ParamStrings == StrUpTo(ParamChars, MaxParamLen)
KeyStrings == StrUpTo(KeyChars, MaxKeyLen)
\* Texts the parameters file may hold: valid and invalid JSON, with and
\* without a brace.
FileTexts == {<<>>, <<"1">>, <<"{", "}">>, <<"{">>, <<"}", "1">>}
\* Secret keys the initial data may hold: plain, with an escape, with an
\* unescaped quote.
SecretKeys == {<<"a">>, <<Backslash, Quote>>, <<Quote>>}
Images == {"tvcA", "tvcB"}
Abis == {"abiA", "abiB"}
OptionOf(S) == {None} \cup {Some(x) : x \in S}

\* The JSON values config.json can hold, as far as main reads them.
Configs ==
  [initial_data : OptionOf({"data.json"}), parameters : OptionOf(ParamStrings)]

\* The JSON values the initial-data file can hold, as far as deploy reads them.
InitialDatas ==
  [abi_path : OptionOf({"abi.json"}), code_base64 : OptionOf(Images),
   public_key : OptionOf(KeyStrings), secret_key : OptionOf(SecretKeys)]

\* The file abi_path names: unreadable, not an ABI, or an ABI contract.
AbiFiles ==
  [readable : {FALSE}, contract : {None}] \cup
  [readable : {TRUE}, contract : OptionOf(Abis)]

\* What reading the parameters file returned.
FileReads ==
  [ok : {FALSE}, text : {<<>>}] \cup [ok : {TRUE}, text : FileTexts]

VARIABLES pc, abi_file, config, initial_data, params_file, params, ton, abi,
          keypair, calc, addr, msg, submitted, submit_result, out

vars == <<pc, abi_file, config, initial_data, params_file, params, ton, abi,
          keypair, calc, addr, msg, submitted, submit_result, out>>

\* ------------------------------------------------------------- printing
Line(prefix, detail) == <<prefix, detail>>
println(prefix, detail) == out' = Append(out, Line(prefix, detail))

\* deploy returned Err(e): main prints "Fail: e" and returns.
Fail(e) == println("Fail: ", <<e>>) /\ pc' = "done"

\* An unwrap of None: the thread panics, nothing more is printed.
Panic == pc' = "panic" /\ UNCHANGED out

\* -------------------------------------------------------- pure functions
\* params.find('{')
find_brace(s) == {i \in 1..Len(s) : s[i] = "{"}

\* serde_json::from_str::<Value> over ParamChars: the object {} and the
\* numbers 1, 11, ... are JSON documents, nothing else is.
ParamsJsonValid(s) ==
  \/ s = <<"{", "}">>
  \/ Len(s) > 0 /\ \A i \in 1..Len(s) : s[i] = "1"

\* The body of a JSON string literal whose text is s, scanned from i: an
\* unescaped quote ends the literal early and a backslash escapes the next
\* character.  The literal is followed by its own closing quote, so over
\* KeyChars an early quote, a trailing backslash or the escape \a all make
\* the enclosing document invalid.
RECURSIVE JsonStrScan(_, _, _)
JsonStrScan(s, i, acc) ==
  IF i > Len(s) THEN [ok |-> TRUE, val |-> acc]
  ELSE IF s[i] = Quote THEN [ok |-> FALSE, val |-> <<>>]
  ELSE IF s[i] = Backslash
       THEN IF i < Len(s) /\ s[i + 1] \in {Quote, Backslash}
            THEN JsonStrScan(s, i + 2, Append(acc, s[i + 1]))
            ELSE [ok |-> FALSE, val |-> <<>>]
  ELSE JsonStrScan(s, i + 1, Append(acc, s[i]))

JsonStr(s) == JsonStrScan(s, 1, <<>>)

\* load_keypair with a slip: a public key alone already makes a keypair.
load_keypair_public_only(public_key, secret_key) ==
  IF IsSome(public_key)
  THEN LET p == JsonStr(Unwrap(public_key))
           s == IF IsSome(secret_key) THEN JsonStr(Unwrap(secret_key))
                ELSE [ok |-> TRUE, val |-> <<>>]
       IN IF p.ok /\ s.ok
          THEN [ok |-> TRUE, val |-> Some([public |-> p.val, secret |-> s.val])]
          ELSE [ok |-> FALSE, val |-> None]
  ELSE [ok |-> TRUE, val |-> None]

\* load_keypair: Ok(None) unless both keys are given; then the two strings
\* are pasted into a JSON object and parsed as a KeyPair.
load_keypair(public_key, secret_key) ==
  IF IsSome(public_key) /\ IsSome(secret_key)
  THEN LET p == JsonStr(Unwrap(public_key))
           s == JsonStr(Unwrap(secret_key))
       IN IF p.ok /\ s.ok
          THEN [ok |-> TRUE, val |-> Some([public |-> p.val, secret |-> s.val])]
          ELSE [ok |-> FALSE, val |-> None]
  ELSE [ok |-> TRUE, val |-> None]

\* The signer calc_acc_address hands to encode_message.
CalcSigner(pubkey) ==
  IF IsSome(pubkey)
  THEN [type |-> "External", public_key |-> Unwrap(pubkey), keys |-> None]
  ELSE [type |-> "None", public_key |-> <<>>, keys |-> None]

\* ParamsOfEncodeMessage built by calc_acc_address.
CalcParams(tvc_base64, pubkey, a) ==
  [abi |-> a, tvc |-> tvc_base64, workchain_id |-> WORKCHAIN,
   signer |-> CalcSigner(pubkey)]

\* The address encode_message returns: a function of image, workchain, ABI
\* and the signer's public key.
SignerPublic(signer) ==
  IF signer.type = "External" THEN Some(signer.public_key)
  ELSE IF signer.type = "Keys" THEN Some(Unwrap(signer.keys).public)
  ELSE None

EncodedAddress(p) ==
  [tvc |-> p.tvc, workchain_id |-> p.workchain_id, abi |-> p.abi,
   public |-> SignerPublic(p.signer)]

\* DeployMessage with a slip: the deploy set names another workchain.
DeployMessage_masterchain(code_base64, a, address, input, keys) ==
  [abi |-> a, address |-> Some(address), tvc |-> code_base64,
   workchain_id |-> WORKCHAIN - 1, function |-> "constructor",
   input |-> input,
   signer |-> [type |-> "Keys", public_key |-> <<>>, keys |-> Some(keys)]]

\* ParamsOfEncodeMessage built by prepare_deploy_message.
DeployMessage(code_base64, a, address, input, keys) ==
  [abi |-> a, address |-> Some(address), tvc |-> code_base64,
   workchain_id |-> WORKCHAIN, function |-> "constructor", input |-> input,
   signer |-> [type |-> "Keys", public_key |-> <<>>, keys |-> Some(keys)]]

\* ----------------------------------------------------------------- Init
Init ==
  /\ pc = "get_config"
  /\ abi_file \in AbiFiles
  /\ config = None
  /\ initial_data = None
  /\ params_file = None
  /\ params = None
  /\ ton = FALSE
  /\ abi = None
  /\ keypair = None
  /\ calc = None
  /\ addr = None
  /\ msg = None
  /\ submitted = 0
  /\ submit_result = "none"
  /\ out = <<>>

\* -------------------------------------------------------------- actions
\* main, lines 22-25
get_config ==
  /\ pc = "get_config"
  /\ \/ /\ \E e \in {"io", "json"} : println("Cannot load config: ", <<e>>)
        /\ pc' = "done"
        /\ UNCHANGED config
     \/ /\ \E c \in Configs : config' = Some(c)
        /\ pc' = "get_initial_data"
        /\ UNCHANGED out
  /\ UNCHANGED <<abi_file, initial_data, params_file, params, ton, abi,
                 keypair, calc, addr, msg, submitted, submit_result>>

\* main, lines 26-29
get_initial_data ==
  /\ pc = "get_initial_data"
  /\ IF IsSome(Unwrap(config).initial_data)
     THEN \/ /\ \E e \in {"io", "json"} :
                   println("Cannot load initial data: ", <<e>>)
             /\ pc' = "done"
             /\ UNCHANGED initial_data
          \/ /\ \E d \in InitialDatas : initial_data' = Some(d)
             /\ pc' = "load_abi"
             /\ UNCHANGED out
     ELSE /\ println("Cannot load initial data: ",
                     <<"initial data file is not defined">>)
          /\ pc' = "done"
          /\ UNCHANGED initial_data
  /\ UNCHANGED <<abi_file, config, params_file, params, ton, abi, keypair,
                 calc, addr, msg, submitted, submit_result>>

\* load_abi with a slip: a missing abi_path is let through.
load_abi_lenient ==
  /\ pc = "load_abi"
  /\ pc' = "load_params"
  /\ UNCHANGED <<abi_file, config, initial_data, params_file, params, ton,
                 abi, keypair, calc, addr, msg, submitted, submit_result,
                 out>>

\* deploy, line 54
load_abi ==
  /\ pc = "load_abi"
  /\ IF IsSome(Unwrap(initial_data).abi_path)
     THEN pc' = "load_params" /\ UNCHANGED out
     ELSE Fail("ABI file is not defined")
  /\ UNCHANGED <<abi_file, config, initial_data, params_file, params, ton,
                 abi, keypair, calc, addr, msg, submitted, submit_result>>

\* load_params with a slip: it looks for the closing brace.
load_params_closing_brace ==
  /\ pc = "load_params"
  /\ LET p == Unwrap(config).parameters IN
     IF ~IsSome(p)
     THEN Panic /\ UNCHANGED <<params_file, params>>
     ELSE IF {i \in 1..Len(Unwrap(p)) : Unwrap(p)[i] = "}"} = {}
     THEN \E r \in FileReads :
            /\ params_file' = Some(r)
            /\ IF r.ok
               THEN /\ params' = Some(r.text)
                    /\ pc' = "code_base64"
                    /\ UNCHANGED out
               ELSE /\ Fail("failed to load params from file")
                    /\ UNCHANGED params
     ELSE /\ params' = p
          /\ pc' = "code_base64"
          /\ UNCHANGED <<params_file, out>>
  /\ UNCHANGED <<abi_file, config, initial_data, ton, abi, keypair, calc,
                 addr, msg, submitted, submit_result>>

\* deploy, line 55
load_params ==
  /\ pc = "load_params"
  /\ LET p == Unwrap(config).parameters IN
     IF ~IsSome(p)
     THEN Panic /\ UNCHANGED <<params_file, params>>
     ELSE IF find_brace(Unwrap(p)) = {}
     THEN \E r \in FileReads :
            /\ params_file' = Some(r)
            /\ IF r.ok
               THEN /\ params' = Some(r.text)
                    /\ pc' = "code_base64"
                    /\ UNCHANGED out
               ELSE /\ Fail("failed to load params from file")
                    /\ UNCHANGED params
     ELSE /\ params' = p
          /\ pc' = "code_base64"
          /\ UNCHANGED <<params_file, out>>
  /\ UNCHANGED <<abi_file, config, initial_data, ton, abi, keypair, calc,
                 addr, msg, submitted, submit_result>>

\* deploy, line 57
code_base64 ==
  /\ pc = "code_base64"
  /\ IF IsSome(Unwrap(initial_data).code_base64)
     THEN pc' = "create_client" /\ UNCHANGED out
     ELSE Panic
  /\ UNCHANGED <<abi_file, config, initial_data, params_file, params, ton,
                 abi, keypair, calc, addr, msg, submitted, submit_result>>

\* deploy_contract, line 133
create_client_verbose ==
  /\ pc = "create_client"
  /\ \/ ton' = TRUE /\ pc' = "read_abi" /\ UNCHANGED out
     \/ Fail("failed to create tonclient") /\ UNCHANGED ton
  /\ UNCHANGED <<abi_file, config, initial_data, params_file, params, abi,
                 keypair, calc, addr, msg, submitted, submit_result>>

\* read_abi with a slip: an unreadable file yields a default ABI.
read_abi_default ==
  /\ pc = "read_abi"
  /\ IF ~abi_file.readable
     THEN abi' = Some("abiA") /\ pc' = "load_keypair" /\ UNCHANGED out
     ELSE IF ~IsSome(abi_file.contract)
     THEN Fail("ABI is not a valid json") /\ UNCHANGED abi
     ELSE abi' = abi_file.contract /\ pc' = "load_keypair" /\ UNCHANGED out
  /\ UNCHANGED <<abi_file, config, initial_data, params_file, params, ton,
                 keypair, calc, addr, msg, submitted, submit_result>>

\* prepare_deploy_message, lines 204-209
read_abi ==
  /\ pc = "read_abi"
  /\ IF ~abi_file.readable
     THEN Fail("failed to read ABI file") /\ UNCHANGED abi
     ELSE IF ~IsSome(abi_file.contract)
     THEN Fail("ABI is not a valid json") /\ UNCHANGED abi
     ELSE abi' = abi_file.contract /\ pc' = "load_keypair" /\ UNCHANGED out
  /\ UNCHANGED <<abi_file, config, initial_data, params_file, params, ton,
                 keypair, calc, addr, msg, submitted, submit_result>>

\* prepare_keypair with a slip: a keypair that does not parse is dropped
\* and the run goes on without keys.
prepare_keypair_drop_error ==
  /\ pc = "load_keypair"
  /\ keypair' = load_keypair(Unwrap(initial_data).public_key,
                             Unwrap(initial_data).secret_key).val
  /\ pc' = "calc_acc_address"
  /\ UNCHANGED <<abi_file, config, initial_data, params_file, params, ton,
                 abi, calc, addr, msg, submitted, submit_result, out>>

\* prepare_deploy_message, lines 210-213
prepare_keypair ==
  /\ pc = "load_keypair"
  /\ LET r == load_keypair(Unwrap(initial_data).public_key,
                           Unwrap(initial_data).secret_key) IN
     IF r.ok
     THEN keypair' = r.val /\ pc' = "calc_acc_address" /\ UNCHANGED out
     ELSE Fail("failed to load keypair") /\ UNCHANGED keypair
  /\ UNCHANGED <<abi_file, config, initial_data, params_file, params, ton,
                 abi, calc, addr, msg, submitted, submit_result>>

\* prepare_deploy_message, lines 214-218, and calc_acc_address
calc_acc_address ==
  /\ pc = "calc_acc_address"
  /\ LET pubkey == IF IsSome(keypair) THEN Some(Unwrap(keypair).public)
                   ELSE None
         p == CalcParams(Unwrap(Unwrap(initial_data).code_base64), pubkey,
                         Unwrap(abi))
     IN \/ /\ Fail("failed to create client context")
           /\ UNCHANGED <<calc, addr>>
        \/ /\ calc' = Some(p)
           /\ \/ Fail("cannot generate address") /\ UNCHANGED addr
              \/ /\ addr' = Some(EncodedAddress(p))
                 /\ pc' = "parse_params"
                 /\ UNCHANGED out
  /\ UNCHANGED <<abi_file, config, initial_data, params_file, params, ton,
                 abi, keypair, msg, submitted, submit_result>>

\* prepare_deploy_message, lines 219-220
parse_params ==
  /\ pc = "parse_params"
  /\ IF ParamsJsonValid(Unwrap(params))
     THEN pc' = "build_message" /\ UNCHANGED out
     ELSE Fail("function arguments is not a json")
  /\ UNCHANGED <<abi_file, config, initial_data, params_file, params, ton,
                 abi, keypair, calc, addr, msg, submitted, submit_result>>

\* prepare_deploy_message, lines 222-233
build_message ==
  /\ pc = "build_message"
  /\ IF IsSome(keypair)
     THEN /\ msg' = Some(DeployMessage(
                      Unwrap(Unwrap(initial_data).code_base64), Unwrap(abi),
                      Unwrap(addr), Unwrap(params), Unwrap(keypair)))
          /\ pc' = "process_message"
          /\ UNCHANGED out
     ELSE Panic /\ UNCHANGED msg
  /\ UNCHANGED <<abi_file, config, initial_data, params_file, params, ton,
                 abi, keypair, calc, addr, submitted, submit_result>>

\* process_message with a slip: the error of the call is dropped.
process_message_drop_error ==
  /\ pc = "process_message"
  /\ submitted' = submitted + 1
  /\ \E sent \in BOOLEAN :
       /\ out' = IF sent THEN Append(out, Line("MessageId: ", <<"id">>))
                 ELSE out
       /\ submit_result' \in {"ok", "err"}
       /\ pc' = "print_succeeded"
  /\ UNCHANGED <<abi_file, config, initial_data, params_file, params, ton,
                 abi, keypair, calc, addr, msg>>

\* deploy_contract, line 142, and process_message: the DidSend event, if it
\* comes, prints the message id before the call returns.
process_message ==
  /\ pc = "process_message"
  /\ submitted' = submitted + 1
  /\ \E sent \in BOOLEAN :
       LET o == IF sent THEN Append(out, Line("MessageId: ", <<"id">>))
                ELSE out
       IN \/ /\ submit_result' = "ok"
             /\ out' = o
             /\ pc' = "print_succeeded"
          \/ /\ submit_result' = "err"
             /\ out' = Append(o, Line("Fail: ", <<"process_message">>))
             /\ pc' = "done"
  /\ UNCHANGED <<abi_file, config, initial_data, params_file, params, ton,
                 abi, keypair, calc, addr, msg>>

\* deploy_contract, line 144
print_succeeded ==
  /\ pc = "print_succeeded"
  /\ println("Transaction succeeded.", <<>>)
  /\ pc' = "print_address"
  /\ UNCHANGED <<abi_file, config, initial_data, params_file, params, ton,
                 abi, keypair, calc, addr, msg, submitted, submit_result>>

\* deploy_contract, line 145
print_address ==
  /\ pc = "print_address"
  /\ println("Contract deployed at address: ", <<Unwrap(addr)>>)
  /\ pc' = "print_ok"
  /\ UNCHANGED <<abi_file, config, initial_data, params_file, params, ton,
                 abi, keypair, calc, addr, msg, submitted, submit_result>>

\* main, line 34
print_ok ==
  /\ pc = "print_ok"
  /\ println("Ok", <<>>)
  /\ pc' = "done"
  /\ UNCHANGED <<abi_file, config, initial_data, params_file, params, ton,
                 abi, keypair, calc, addr, msg, submitted, submit_result>>

Next ==
  \/ get_config
  \/ get_initial_data
  \/ load_abi
  \/ load_params
  \/ code_base64
  \/ create_client_verbose
  \/ read_abi
  \/ prepare_keypair
  \/ calc_acc_address
  \/ parse_params
  \/ build_message
  \/ process_message
  \/ print_succeeded
  \/ print_address
  \/ print_ok

Spec == Init /\ [][Next]_vars

\* ------------------------------------------------------------ properties
Terminal == pc \in {"done", "panic"}
Lines(prefix) == {i \in 1..Len(out) : out[i][1] = prefix}
HasLine(prefix) == Lines(prefix) /= {}
FailedWith(e) ==
  \E i \in 1..Len(out) : out[i][1] = "Fail: " /\ out[i][2] = <<e>>
Loaded == IsSome(config) /\ IsSome(initial_data)
Data == Unwrap(initial_data)
Parameters == Unwrap(config).parameters
NoKeys == ~IsSome(Data.public_key) /\ ~IsSome(Data.secret_key)

\* C1: a run of main never reaches a crash (panic) state, whatever the
\* files hold and whatever the external client answers.
C1_NeverPanics == pc /= "panic"

\* C2: every finished run has printed exactly one final outcome line, it is
\* the last line, and it is "Ok" or starts with "Fail: ".
C2_OneOutcomeLine ==
  Terminal =>
    /\ Cardinality(Lines("Ok") \cup Lines("Fail: ")) = 1
    /\ Len(out) \in Lines("Ok") \cup Lines("Fail: ")

\* C3: when abi_path is absent from the loaded initial data, the run ends
\* with the error "ABI file is not defined" and the client is never
\* constructed, no address computed and no message built or submitted.
C3_AbiAbsentNoClient ==
  (Loaded /\ ~IsSome(Data.abi_path)) =>
    /\ pc \in {"load_abi", "done"}
    /\ ~ton /\ calc = None /\ addr = None /\ msg = None /\ submitted = 0
    /\ pc = "done" =>
         /\ Len(out) = 1
         /\ out[1][1] = "Fail: "
         /\ out[1][2] = <<"ABI file is not defined">>

\* C3 witness: a run with neither abi_path nor parameters has ended.
C3_Witness ==
  /\ Loaded /\ ~IsSome(Data.abi_path) /\ ~IsSome(Parameters)
  /\ pc = "done"
  /\ FailedWith("ABI file is not defined")

\* C4: when abi_path names an unreadable file and parameters and
\* code_base64 are present, the run ends with a "Fail:" line, no message is
\* submitted and neither "Transaction succeeded." nor "Ok" is printed.
C4_UnreadableAbiFails ==
  (/\ Loaded /\ IsSome(Data.abi_path) /\ ~abi_file.readable
   /\ IsSome(Parameters) /\ IsSome(Data.code_base64)) =>
    /\ submitted = 0 /\ msg = None
    /\ ~HasLine("Transaction succeeded.") /\ ~HasLine("Ok")
    /\ pc /= "panic"
    /\ pc = "done" => Len(out) = 1 /\ out[1][1] = "Fail: "

\* C4 witness: the read of the ABI file was tried and failed.
C4_Witness ==
  /\ Loaded /\ IsSome(Data.abi_path) /\ ~abi_file.readable
  /\ pc = "done"
  /\ FailedWith("failed to read ABI file")

\* C5: load_params routes on the presence of an opening brace: a string
\* with one is returned unchanged and no file is read; a string without one
\* is read as a file and the result is the file's text, or the error
\* "failed to load params from file"; a resulting text that is not JSON
\* never leads to a submission or to "Ok".
C5_LoadParamsRouting ==
  (IsSome(config) /\ IsSome(Parameters)) =>
    LET p == Unwrap(Parameters)
        inline == \E i \in 1..Len(p) : p[i] = "{"
        past == pc \notin
                  {"get_config", "get_initial_data", "load_abi", "load_params"}
        ran == past /\ Loaded /\ IsSome(Data.abi_path)
    IN /\ inline => params_file = None /\ (ran => params = Some(p))
       /\ ~inline =>
            /\ ran => IsSome(params_file)
            /\ IsSome(params) => IsSome(params_file)
            /\ IsSome(params_file) =>
                 IF Unwrap(params_file).ok
                 THEN params = Some(Unwrap(params_file).text)
                 ELSE /\ params = None
                      /\ pc = "done"
                      /\ FailedWith("failed to load params from file")
       /\ (IsSome(params) /\ ~ParamsJsonValid(Unwrap(params))) =>
            /\ submitted = 0 /\ msg = None
            /\ ~HasLine("Ok")
            /\ pc \notin {"build_message", "process_message",
                         "print_succeeded", "print_address", "print_ok"}

\* C5 witness: a parameters string without a brace was read as a file and
\* the deployment went through with the file's text.
C5_Witness ==
  /\ IsSome(params_file) /\ Unwrap(params_file).ok
  /\ params = Some(Unwrap(params_file).text)
  /\ params /= Parameters
  /\ HasLine("Ok")

\* C6: when the secret key is absent, address computation runs with no
\* public key and the None signer; the External signer is used only when
\* both keys are present and parse as a keypair, with the parsed public key.
C6_SignerOfAddress ==
  IsSome(calc) =>
    LET signer == Unwrap(calc).signer IN
    /\ signer.type \in {"None", "External"}
    /\ ~IsSome(Data.secret_key) => signer.type = "None"
    /\ signer.type = "External" =>
         /\ IsSome(Data.public_key) /\ IsSome(Data.secret_key)
         /\ JsonStr(Unwrap(Data.public_key)).ok
         /\ JsonStr(Unwrap(Data.secret_key)).ok
         /\ signer.public_key = JsonStr(Unwrap(Data.public_key)).val

\* C6 witness: the address was computed for initial data with a public key
\* and no secret key.
C6_Witness ==
  /\ IsSome(calc) /\ IsSome(addr)
  /\ IsSome(Data.public_key) /\ ~IsSome(Data.secret_key)
  /\ Unwrap(calc).signer.type = "None"

\* C7: with neither public_key nor secret_key, and ABI, image and
\* parameters valid, the run builds a deployment message with the None
\* signer and submits it.
C7_UnsignedDeployment ==
  (/\ Terminal /\ Loaded /\ NoKeys
   /\ IsSome(addr) /\ IsSome(params) /\ ParamsJsonValid(Unwrap(params))) =>
    /\ IsSome(msg)
    /\ Unwrap(msg).signer.type = "None"
    /\ submitted = 1

\* C8: "Transaction succeeded." is printed only after the single submission
\* returned success, is followed at once by the address line with the
\* computed address and then by "Ok"; after a failed submission none of the
\* three lines is printed.
C8_SuccessLines ==
  /\ submitted \in {0, 1}
  /\ \A i \in Lines("Transaction succeeded.") :
       /\ submitted = 1 /\ submit_result = "ok"
       /\ Len(out) > i =>
            /\ out[i + 1][1] = "Contract deployed at address: "
            /\ out[i + 1][2] = <<Unwrap(addr)>>
       /\ Len(out) > i + 1 => out[i + 2][1] = "Ok"
       /\ Len(out) <= i + 2
       /\ pc = "done" => Len(out) = i + 2
  /\ HasLine("Contract deployed at address: ") =>
       HasLine("Transaction succeeded.")
  /\ HasLine("Ok") => HasLine("Contract deployed at address: ")
  /\ submit_result /= "ok" =>
       /\ ~HasLine("Transaction succeeded.")
       /\ ~HasLine("Contract deployed at address: ")
       /\ ~HasLine("Ok")
  /\ (Terminal /\ submit_result = "ok") => HasLine("Ok")

\* C8 witness: a run ended with the three lines, after the message id.
C8_Witness ==
  /\ pc = "done" /\ submit_result = "ok"
  /\ Len(out) = 4
  /\ out[1][1] = "MessageId: "
  /\ out[2][1] = "Transaction succeeded."
  /\ out[4][1] = "Ok"

\* C9: a deployment message carries the image, ABI, workchain id and public
\* key that address computation was given, its address field is the address
\* that computation returned, and that is the address printed.
C9_MessageMatchesAddress ==
  IsSome(msg) =>
    /\ IsSome(calc) /\ IsSome(addr)
    /\ LET m == Unwrap(msg)
           c == Unwrap(calc)
       IN /\ m.tvc = c.tvc
          /\ m.abi = c.abi
          /\ m.workchain_id = c.workchain_id
          /\ SignerPublic(m.signer) = SignerPublic(c.signer)
          /\ m.address = addr
          /\ Unwrap(addr) = EncodedAddress(m)
          /\ \A i \in Lines("Contract deployed at address: ") :
               out[i][2] = <<Unwrap(m.address)>>

\* C9 witness: the message was built and its address printed.
C9_Witness ==
  /\ IsSome(msg)
  /\ HasLine("Contract deployed at address: ")
  /\ Unwrap(msg).tvc = "tvcB"

\* C10 as stated: address computation is invoked only after ABI,
\* parameters, image and keys are all resolved, the parameters as JSON; a
\* run whose parameters text is not JSON never invokes it.
C10_AddressAfterParamsParsed ==
  IsSome(calc) =>
    /\ IsSome(abi) /\ IsSome(Data.code_base64)
    /\ IsSome(params) /\ ParamsJsonValid(Unwrap(params))

\* C10 amended: address computation is invoked only after the client is
\* created, the ABI read and parsed, the parameters text loaded, the image
\* present and the keypair loaded; the parameters text is parsed as JSON
\* only after the address is computed, so the error "function arguments is
\* not a json" comes after a successful address computation.
C10_AddressAfterInputsLoaded ==
  /\ IsSome(calc) =>
       /\ ton /\ IsSome(abi) /\ abi = abi_file.contract
       /\ IsSome(params) /\ IsSome(Data.code_base64)
       /\ load_keypair(Data.public_key, Data.secret_key).ok
       /\ keypair = load_keypair(Data.public_key, Data.secret_key).val
       /\ submitted = 0 \/ IsSome(addr)
  /\ FailedWith("function arguments is not a json") =>
       /\ IsSome(calc) /\ IsSome(addr)
       /\ ~ParamsJsonValid(Unwrap(params))
       /\ msg = None
  /\ (IsSome(addr) /\ Terminal /\ ~ParamsJsonValid(Unwrap(params))) =>
       FailedWith("function arguments is not a json")

\* C10 witness: a run with parameters that are not JSON computed the
\* address and then failed.
C10_Witness ==
  /\ pc = "done"
  /\ IsSome(addr)
  /\ FailedWith("function arguments is not a json")

====
